---------------------------- MODULE Spec2Model ----------------------------
(***************************************************************************)
(* click_project/docker.py: the docker-compose command group.              *)
(*                                                                         *)
(* Strings are sequences of characters, paths are sequences of components  *)
(* (an absolute path starts with the component "/").  Four specifications: *)
(*   Spec      the service catalogue (DockerServices.choices / complete    *)
(*             behind cache_disk(expire=60)), one call at a time;          *)
(*   SpecPure  compute's parsing and complete's filtering on all short     *)
(*             orchestrator outputs;                                       *)
(*   SpecUp    the up subcommand;                                          *)
(*   SpecConc  several completion requests interleaving on the cache.      *)
(***************************************************************************)
EXTENDS Integers, Sequences, FiniteSets, TLC

VARIABLES
    cache,      \* cache_disk's store: a set of [key, services, createdAt]
    now,        \* wall clock, seconds
    ninv,       \* per (cwd, args): discovery invocations issued so far
    ncalls,     \* number of catalogue calls made so far
    last,       \* what the last catalogue call did
    out,        \* SpecPure: the orchestrator's standard output
    prefix,     \* SpecPure: the incomplete word
    services,   \* SpecPure: compute's result
    completed,  \* SpecPure: complete's result
    stage,      \* SpecPure: "input", "discovered", "completed" ("off" elsewhere)
    uplast,     \* SpecUp: what the last up execution did
    pc,         \* SpecConc: per request, "idle" or "computing"
    req         \* SpecConc: per request, the key it is computing

vars == <<cache, now, ninv, ncalls, last, out, prefix, services, completed,
          stage, uplast, pc, req>>

(***************************************************************************)
(* Bounds.                                                                 *)
(***************************************************************************)
MaxTime == 60
MaxCalls == 3
MaxOutLen == 5
MaxPrefixLen == 2
MaxScales == 2
MaxServices == 2

\* Clock advances offered to the model: they reach the times 0, 30, 59, 60,
\* hence the ages 0, 29, 30, 59 (fresh) and 60 (expired).
Deltas == {30, 59}

(***************************************************************************)
(* Characters and strings.                                                 *)
(***************************************************************************)
LineBreaks == {"\n", "\r"}
Whitespace == {" ", "\t", "\n", "\r"}

RECURSIVE SplitFrom(_, _)
SplitFrom(s, cur) ==
    IF s = <<>> THEN (IF cur = <<>> THEN <<>> ELSE <<cur>>)
    ELSE IF Head(s) = "\r" /\ Len(s) >= 2 /\ s[2] = "\n"
         THEN <<cur>> \o SplitFrom(SubSeq(s, 3, Len(s)), <<>>)
    ELSE IF Head(s) \in LineBreaks
         THEN <<cur>> \o SplitFrom(Tail(s), <<>>)
    ELSE SplitFrom(Tail(s), Append(cur, Head(s)))

\* str.splitlines(): the lines without their terminators; no trailing
\* empty line after a final terminator.
splitlines(s) == SplitFrom(s, <<>>)

RECURSIVE lstrip(_)
lstrip(s) ==
    IF s # <<>> /\ Head(s) \in Whitespace THEN lstrip(Tail(s)) ELSE s

RECURSIVE rstrip(_)
rstrip(s) ==
    IF s # <<>> /\ s[Len(s)] \in Whitespace
    THEN rstrip(SubSeq(s, 1, Len(s) - 1)) ELSE s

\* str.strip()
strip(s) == rstrip(lstrip(s))

\* The lines of s, cut at every line terminator ("\r\n" counting as one),
\* each stripped.
TrimmedLines(s) == [i \in 1..Len(splitlines(s)) |-> strip(splitlines(s)[i])]

\* click_project.completion.startswith: case-sensitive prefix match
startswith(choice, incomplete) ==
    /\ Len(incomplete) <= Len(choice)
    /\ SubSeq(choice, 1, Len(incomplete)) = incomplete

(***************************************************************************)
(* Paths: os.path.abspath.                                                 *)
(***************************************************************************)
Cwd == <<"/", "w">>

RECURSIVE NormParts(_, _)
NormParts(parts, acc) ==
    IF parts = <<>> THEN acc
    ELSE IF Head(parts) = "." THEN NormParts(Tail(parts), acc)
    ELSE IF Head(parts) = ".."
         THEN NormParts(Tail(parts),
                        IF acc = <<>> THEN acc
                        ELSE SubSeq(acc, 1, Len(acc) - 1))
    ELSE NormParts(Tail(parts), Append(acc, Head(parts)))

abspath(p) ==
    LET full == IF p # <<>> /\ Head(p) = "/" THEN p ELSE Cwd \o p
    IN  <<"/">> \o NormParts(Tail(full), <<>>)

\* The directory option as the command group is given it.
Directories ==
    { <<"/", "w", "a">>, <<".", "a">>, <<"..", "b">> }

\* The extra_options as the command group is given them.
ExtraOptions == { <<"-p", "x">>, <<"x", "-p">> }

abs_directory(directory) == abspath(directory)

extra_options(extra) == extra

(***************************************************************************)
(* The orchestrator as the environment: a discovery invocation either      *)
(* fails (check_output raises) or yields a standard output.                *)
(***************************************************************************)
Failure == [ok |-> FALSE, stdout |-> <<>>]

Outputs ==
    { <<"w", "e", "b", "\n", "d", "b", "\n">>,
      <<"w", "e", "b", "\n", "\n", " ", "d", "b", " ", "\n">> }

Responses == {Failure} \cup {[ok |-> TRUE, stdout |-> o] : o \in Outputs}

\* Faulty variant of compute: a failing invocation yields an empty list.
compute_swallow(resp) ==
    IF resp.ok
    THEN [raised |-> FALSE, value |-> TrimmedLines(resp.stdout)]
    ELSE [raised |-> FALSE, value |-> <<>>]

\* compute's body: the lines of the output, each stripped; a failing
\* invocation raises.
compute(resp) ==
    IF resp.ok
    THEN [raised |-> FALSE,
          value |-> [i \in 1..Len(splitlines(resp.stdout)) |->
                        strip(splitlines(resp.stdout)[i])]]
    ELSE [raised |-> TRUE, value |-> <<>>]

(***************************************************************************)
(* cache_disk(expire): one entry per key, fresh while younger than expire. *)
(***************************************************************************)
\* Faulty variants of the expiry: half of it, and half as much again.
ExpireShort == 60 \div 2

ExpireLong == 60 + 30

\* cache_disk(expire=60)

Expire == 60

Fresh(c, key, t) == {e \in c : e.key = key /\ t - e.createdAt < Expire}

CacheStore(c, key, value, t) ==
    {e \in c : e.key # key}
        \cup {[key |-> key, services |-> value, createdAt |-> t]}

\* Faulty variant of CacheKey: every directory gets the same key.
CacheKeyIgnoreDir(directory, extra) ==
    <<abs_directory(<<"/", "b">>), extra_options(extra)>>

\* The key compute is called with: (abs_directory(), extra_options).
CacheKey(directory, extra) ==
    <<abs_directory(directory), extra_options(extra)>>

Keys == {CacheKey(d, f) : d \in Directories, f \in ExtraOptions}

\* cache_disk's wrapper around compute: a fresh entry is returned as it is;
\* otherwise compute runs (one discovery invocation, answered by resp) and
\* its result is stored, unless it raised.
cache_disk(c, key, t, resp) ==
    LET hit == Fresh(c, key, t)
        r   == compute(resp)
    IN  IF hit # {}
        THEN [cache |-> c, invoked |-> FALSE, raised |-> FALSE,
              value |-> (CHOOSE e \in hit : TRUE).services, key |-> key]
        ELSE IF r.raised
        THEN [cache |-> c, invoked |-> TRUE, raised |-> TRUE,
              value |-> <<>>, key |-> key]
        ELSE [cache |-> CacheStore(c, key, r.value, t), invoked |-> TRUE,
              raised |-> FALSE, value |-> r.value, key |-> key]

\* The outcome of reading the choices property at time t when a discovery
\* invocation, if one is issued, gets the response resp.
choices(c, directory, extra, t, resp) ==
    cache_disk(c, CacheKey(directory, extra), t, resp)

\* Whether reading choices at time t issues a discovery invocation.
Misses(c, directory, extra, t) == Fresh(c, CacheKey(directory, extra), t) = {}

\* Faulty variant of complete: the matches come out in reverse order.
RECURSIVE complete_reversed(_, _)
complete_reversed(chs, incomplete) ==
    IF chs = <<>> THEN <<>>
    ELSE complete_reversed(Tail(chs), incomplete)
            \o (IF startswith(Head(chs), incomplete)
                THEN <<Head(chs)>> ELSE <<>>)

\* complete's comprehension: the choices that start with incomplete.
RECURSIVE complete(_, _)
complete(chs, incomplete) ==
    IF chs = <<>> THEN <<>>
    ELSE (IF startswith(Head(chs), incomplete) THEN <<Head(chs)>> ELSE <<>>)
            \o complete(Tail(chs), incomplete)

(***************************************************************************)
(* Spec: the service catalogue, one call at a time.                        *)
(***************************************************************************)
Prefixes == { <<"w">> }

NoCall ==
    [op |-> "none", dir |-> <<>>, flags |-> <<>>, prefix |-> <<>>,
     age |-> -1, invoked |-> FALSE, resp |-> Failure, raised |-> FALSE,
     result |-> <<>>]

\* Age of the entry stored for key, -1 when there is none.
AgeOf(c, key, t) ==
    IF \E e \in c : e.key = key
    THEN t - (CHOOSE e \in c : e.key = key).createdAt
    ELSE -1

\* What the orchestrator may answer: nothing is asked of it on a cache hit.
EnvResponses(directory, extra) ==
    IF Misses(cache, directory, extra, now) THEN Responses ELSE {Failure}

PureIdle ==
    UNCHANGED <<out, prefix, services, completed, stage, uplast, pc, req>>

InitIdle ==
    /\ out = <<>>
    /\ prefix = <<>>
    /\ services = <<>>
    /\ completed = <<>>
    /\ stage = "off"
    /\ uplast = [op |-> "none"]
    /\ pc = <<>>
    /\ req = <<>>

Init ==
    /\ cache = {}
    /\ now = 0
    /\ ninv = [k \in Keys |-> 0]
    /\ ncalls = 0
    /\ last = NoCall
    /\ InitIdle

\* A command reads DockerServices().choices (listServices).
ListServices(directory, extra) ==
    /\ ncalls < MaxCalls
    /\ \E resp \in EnvResponses(directory, extra) :
          LET r == choices(cache, directory, extra, now, resp) IN
          /\ cache' = r.cache
          /\ ninv' = IF r.invoked
                     THEN [ninv EXCEPT ![r.key] = @ + 1] ELSE ninv
          /\ last' = [op |-> "list", dir |-> abs_directory(directory),
                      flags |-> extra_options(extra),
                      prefix |-> <<>>,
                      age |-> AgeOf(cache, r.key, now),
                      invoked |-> r.invoked, resp |-> resp,
                      raised |-> r.raised, result |-> r.value]
    /\ ncalls' = ncalls + 1
    /\ UNCHANGED now
    /\ PureIdle

\* The shell asks DockerServices().complete(ctx, incomplete).
Complete(directory, extra, incomplete) ==
    /\ ncalls < MaxCalls
    /\ \E resp \in EnvResponses(directory, extra) :
          LET r == choices(cache, directory, extra, now, resp) IN
          /\ cache' = r.cache
          /\ ninv' = IF r.invoked
                     THEN [ninv EXCEPT ![r.key] = @ + 1] ELSE ninv
          /\ last' = [op |-> "complete", dir |-> abs_directory(directory),
                      flags |-> extra_options(extra),
                      prefix |-> incomplete,
                      age |-> AgeOf(cache, r.key, now),
                      invoked |-> r.invoked, resp |-> resp,
                      raised |-> r.raised,
                      result |-> IF r.raised THEN <<>>
                                 ELSE complete(r.value, incomplete)]
    /\ ncalls' = ncalls + 1
    /\ UNCHANGED now
    /\ PureIdle

Tick ==
    /\ \E d \in Deltas :
          /\ now + d <= MaxTime
          /\ now' = now + d
    /\ UNCHANGED <<cache, ninv, ncalls, last>>
    /\ PureIdle

Next ==
    \/ \E d \in Directories, f \in ExtraOptions : ListServices(d, f)
    \/ \E d \in Directories, f \in ExtraOptions, p \in Prefixes :
          Complete(d, f, p)
    \/ Tick

Spec == Init /\ [][Next]_vars

(***************************************************************************)
(* Claims on the service catalogue (Spec).                                 *)
(***************************************************************************)
\* The step is a listServices call for (directory d, extra flags f).
ListStep(d, f) ==
    /\ ncalls' = ncalls + 1
    /\ last'.op = "list"
    /\ last'.dir = d
    /\ last'.flags = f

AbsDirs == {abs_directory(d) : d \in Directories}

\* C1: a listServices call made less than 60 seconds after the call that
\* stored the key's entry issues no external invocation and returns exactly
\* the stored sequence; the storing call issued exactly one invocation, so
\* the two calls together issue exactly one.
C1_CachedWithin60 ==
    [][\A d \in AbsDirs, f \in ExtraOptions :
          ListStep(d, f) =>
             /\ \A e \in cache :
                   (e.key = <<d, f>> /\ now - e.createdAt < 60) =>
                      /\ ninv' = ninv
                      /\ ~last'.invoked
                      /\ ~last'.raised
                      /\ last'.result = e.services
                      /\ cache' = cache
             /\ cache' # cache =>
                   /\ ninv' = [ninv EXCEPT ![<<d, f>>] = @ + 1]
                   /\ \E e \in cache' :
                         /\ e.key = <<d, f>>
                         /\ e.createdAt = now
                         /\ e.services = last'.result]_vars

\* Witness of C1: a listServices call answered from an entry aged 59 s,
\* with exactly one invocation ever issued for the key.
C1_Witness ==
    /\ last.op = "list"
    /\ last.age = 59
    /\ ~last.invoked
    /\ last.result # <<>>
    /\ ninv[<<last.dir, last.flags>>] = 1

\* The step is a catalogue call, of either kind, for (d, f).
CallStep(d, f) ==
    /\ ncalls' = ncalls + 1
    /\ last'.dir = d
    /\ last'.flags = f

\* C2: once the key's entry is 60 seconds old or more, the next call issues
\* a fresh invocation and never answers from the old entry; a listServices
\* call returns what that invocation produced, and on success the entry is
\* replaced wholesale by the new result with createdAt = now; there is never
\* more than one entry per key.
C2_ExpiredRefreshed ==
    /\ [](\A e1 \in cache, e2 \in cache : e1.key = e2.key => e1 = e2)
    /\ [][\A d \in AbsDirs, f \in ExtraOptions :
            (/\ CallStep(d, f)
             /\ \E e \in cache : e.key = <<d, f>> /\ now - e.createdAt >= 60)
            =>
             /\ last'.invoked
             /\ ninv' = [ninv EXCEPT ![<<d, f>>] = @ + 1]
             /\ last'.resp.ok =>
                   /\ ~last'.raised
                   /\ last'.op = "list" =>
                         last'.result = TrimmedLines(last'.resp.stdout)
                   /\ {e \in cache' : e.key = <<d, f>>} =
                         {[key |-> <<d, f>>,
                           services |-> TrimmedLines(last'.resp.stdout),
                           createdAt |-> now]}]_vars

\* Witness of C2: a listServices call found an entry aged exactly 60 s and
\* replaced it with a different result stamped now.
C2_Witness ==
    /\ last.op = "list"
    /\ last.age = 60
    /\ last.invoked
    /\ last.resp.ok
    /\ ninv[<<last.dir, last.flags>>] = 2
    /\ \E e \in cache :
          /\ e.key = <<last.dir, last.flags>>
          /\ e.createdAt = now
          /\ e.services = last.result
          /\ Len(e.services) = 3

\* C3: when the discovery invocation fails during completeServices, the
\* call raises no error and returns the empty sequence.
C3_CompleteSwallowsFailure ==
    (last.op = "complete" /\ last.invoked /\ ~last.resp.ok) =>
        (~last.raised /\ last.result = <<>>)

\* C4: a failed discovery in listServices raises to the caller and leaves
\* the cache as it was; the next listServices call for the same key, however
\* soon, issues a new invocation.
C4_FailureNotCached ==
    [][\A d \in AbsDirs, f \in ExtraOptions :
          ListStep(d, f) =>
             /\ (last'.invoked /\ ~last'.resp.ok) =>
                   (last'.raised /\ cache' = cache)
             /\ (/\ last.op = "list"
                 /\ last.dir = d
                 /\ last.flags = f
                 /\ last.invoked
                 /\ ~last.resp.ok) =>
                   (last'.invoked
                      /\ ninv' = [ninv EXCEPT ![<<d, f>>] = @ + 1])]_vars

\* Witness of C4: a listServices call failed on an expired entry, which is
\* still in the cache, right after an earlier failure on the same key.
C4_Witness ==
    /\ last.op = "list"
    /\ last.invoked
    /\ ~last.resp.ok
    /\ last.raised
    /\ last.age = 60
    /\ ninv[<<last.dir, last.flags>>] = 3
    /\ \E e \in cache :
          e.key = <<last.dir, last.flags>> /\ now - e.createdAt = 60

\* C7: a listServices call for one key leaves the entries and the
\* invocation counts of every other key untouched, and what it returns
\* without an invocation is the entry of its own key.
C7_KeyIsolation ==
    [][\A d \in AbsDirs, f \in ExtraOptions :
          ListStep(d, f) =>
             /\ \A e \in cache \cup cache' :
                   e.key # <<d, f>> => (e \in cache /\ e \in cache')
             /\ \A k \in Keys : k # <<d, f>> => ninv'[k] = ninv[k]
             /\ ~last'.invoked =>
                   \E e \in cache :
                      e.key = <<d, f>> /\ e.services = last'.result]_vars

\* Witness of C7: two directories with identical extra flags hold different
\* entries, one of them just stored by a listServices call.
C7_Witness ==
    /\ last.op = "list"
    /\ last.invoked
    /\ \E e1 \in cache, e2 \in cache :
          /\ e1.key = <<last.dir, last.flags>>
          /\ e1.createdAt = now
          /\ e2.key[1] # e1.key[1]
          /\ e2.key[2] = e1.key[2]
          /\ e2.createdAt < now
          /\ e2.services # e1.services

(***************************************************************************)
(* SpecPure: discovery and completion on every short orchestrator output.  *)
(***************************************************************************)
OutAlphabet == {"a", "A", " ", "\n", "\r"}

PrefixAlphabet == {"a", "A"}

SeqsUpTo(S, n) == UNION {[1..k -> S] : k \in 0..n}

CatalogIdle ==
    UNCHANGED <<cache, now, ninv, ncalls, last, uplast, pc, req>>

InitPure ==
    /\ out \in SeqsUpTo(OutAlphabet, MaxOutLen)
    /\ prefix \in SeqsUpTo(PrefixAlphabet, MaxPrefixLen)
    /\ services = <<>>
    /\ completed = <<>>
    /\ stage = "input"
    /\ cache = {}
    /\ now = 0
    /\ ninv = [k \in Keys |-> 0]
    /\ ncalls = 0
    /\ last = NoCall
    /\ uplast = [op |-> "none"]
    /\ pc = <<>>
    /\ req = <<>>

\* compute runs on the orchestrator's output.
Discover ==
    /\ stage = "input"
    /\ services' = compute([ok |-> TRUE, stdout |-> out]).value
    /\ stage' = "discovered"
    /\ UNCHANGED <<out, prefix, completed>>
    /\ CatalogIdle

\* complete filters the discovered choices.
CompleteDiscovered ==
    /\ stage = "discovered"
    /\ completed' = complete(services, prefix)
    /\ stage' = "completed"
    /\ UNCHANGED <<out, prefix, services>>
    /\ CatalogIdle

NextPure ==
    \/ Discover
    \/ CompleteDiscovered

SpecPure == InitPure /\ [][NextPure]_vars

NonEmpty(line) == line # <<>>

\* C5: discovery yields the output's lines in order, each trimmed, with the
\* lines that are empty after trimming discarded, so the result holds no
\* empty string.
C5_EmptyLinesDiscarded ==
    stage # "input" =>
        /\ services = SelectSeq(TrimmedLines(out), NonEmpty)
        /\ \A i \in 1..Len(services) : services[i] # <<>>

\* p is a prefix of s, character by character.
IsPrefix(p, s) ==
    /\ Len(p) <= Len(s)
    /\ \A j \in 1..Len(p) : s[j] = p[j]

Matching == {i \in 1..Len(services) : IsPrefix(prefix, services[i])}

\* C6: completeServices returns exactly the elements of the discovered
\* sequence that start with the prefix (case-sensitive), in their order in
\* that sequence; with the empty prefix it returns the whole sequence.
C6_PrefixSubsequence ==
    stage = "completed" =>
        /\ Len(completed) = Cardinality(Matching)
        /\ \A i \in Matching :
              completed[Cardinality({j \in Matching : j <= i})] = services[i]
        /\ prefix = <<>> => completed = services

\* Witness of C6: two of three discovered services match a non-empty prefix
\* and differ, a third one between or around them does not.
C6_Witness ==
    /\ stage = "completed"
    /\ prefix # <<>>
    /\ Len(services) = 3
    /\ Len(completed) = 2
    /\ completed[1] # completed[2]

(***************************************************************************)
(* SpecUp: the up subcommand.                                              *)
(***************************************************************************)
User == "u"

\* The group databases grp.getgrall() may return.
GroupDbs ==
    { {},
      {[gr_name |-> "docker", gr_mem |-> {}]},
      {[gr_name |-> "docker", gr_mem |-> {"u"}]},
      {[gr_name |-> "docker", gr_mem |-> {"v"}],
       [gr_name |-> "sudo", gr_mem |-> {"u"}]},
      {[gr_name |-> "docker", gr_mem |-> {"u", "v"}],
       [gr_name |-> "sudo", gr_mem |-> {"u"}]} }

\* The host: whether the grp module can be imported, the group database
\* and the current user's primary group.
Envs ==
    [grp : BOOLEAN, groups : GroupDbs, primary : {"users", "docker"}]

ScaleArgs == {"web=2", "db=1"}

ServiceNames == {"web", "db"}

\* Faulty variant of user_in_docker_group: every exception is swallowed.
user_in_docker_group_swallow(env) == FALSE

\* user_in_docker_group: TRUE when it raises ClickException.
user_in_docker_group(env) ==
    IF ~env.grp THEN FALSE
    ELSE LET groups == {g.gr_name : g \in {h \in env.groups : User \in h.gr_mem}}
         IN  "docker" \notin groups

\* Faulty variant of up_args: each pair is put in front of the others.
RECURSIVE up_args_prepend(_)
up_args_prepend(scales) ==
    IF scales = <<>> THEN <<>>
    ELSE up_args_prepend(Tail(scales)) \o <<"--scale", Head(scales)>>

\* The loop of up: up_args += ['--scale', scale] for each scale.
RECURSIVE up_args(_)
up_args(scales) ==
    IF scales = <<>> THEN <<>>
    ELSE <<"--scale", Head(scales)>> \o up_args(Tail(scales))

\* docker_compose(args): the process call hands to the runner.
docker_compose(args, directory, extra) ==
    [argv |-> <<"docker-compose">> \o extra_options(extra) \o args,
     cwd |-> abs_directory(directory)]

\* up's body: the events of one execution, in order, and the process run.
up(service, force_recreate, scales, env, directory, extra) ==
    IF user_in_docker_group(env)
    THEN [events |-> <<"user_in_docker_group">>, raised |-> TRUE,
          args |-> <<>>, argv |-> <<>>, cwd |-> <<>>]
    ELSE LET args == <<"up", "-d", "--build">>
                        \o up_args(scales)
                        \o (IF force_recreate
                            THEN <<"--force-recreate">> ELSE <<>>)
                        \o service
             run == docker_compose(args, directory, extra)
         IN  [events |-> <<"user_in_docker_group", "docker_compose">>,
              raised |-> FALSE, args |-> args, argv |-> run.argv,
              cwd |-> run.cwd]

InitUp ==
    /\ uplast = [op |-> "none"]
    /\ cache = {}
    /\ now = 0
    /\ ninv = [k \in Keys |-> 0]
    /\ ncalls = 0
    /\ last = NoCall
    /\ out = <<>>
    /\ prefix = <<>>
    /\ services = <<>>
    /\ completed = <<>>
    /\ stage = "off"
    /\ pc = <<>>
    /\ req = <<>>

\* One execution of the up subcommand (one process per command line).
Up(service, force_recreate, scales, env, directory, extra) ==
    /\ LET r == up(service, force_recreate, scales, env, directory, extra) IN
       uplast' = [op |-> "up", service |-> service,
                  force_recreate |-> force_recreate, scales |-> scales,
                  env |-> env, extra |-> extra, events |-> r.events,
                  raised |-> r.raised, args |-> r.args, argv |-> r.argv,
                  cwd |-> r.cwd]
    /\ UNCHANGED <<cache, now, ninv, ncalls, last, out, prefix, services,
                   completed, stage, pc, req>>

NextUp ==
    /\ uplast.op = "none"
    /\ \E service \in SeqsUpTo(ServiceNames, MaxServices),
          force_recreate \in BOOLEAN,
          scales \in SeqsUpTo(ScaleArgs, MaxScales),
          env \in Envs,
          directory \in Directories,
          extra \in ExtraOptions :
             Up(service, force_recreate, scales, env, directory, extra)

SpecUp == InitUp /\ [][NextUp]_vars

\* The current user belongs to the docker group, as a listed member or
\* through the primary group.
InDockerGroup(env) ==
    \/ env.primary = "docker"
    \/ \E g \in env.groups : g.gr_name = "docker" /\ User \in g.gr_mem

Invoked(u) == \E i \in 1..Len(u.events) : u.events[i] = "docker_compose"

\* C8: in every execution of up the docker-group check comes before any
\* orchestrator invocation; when the user is not in the docker group (and
\* groups can be enumerated) up fails and invokes no orchestrator process;
\* when groups cannot be enumerated the check is skipped and the
\* orchestrator is invoked.
C8_GroupCheckFirst ==
    uplast.op = "up" =>
        /\ \A i \in 1..Len(uplast.events) :
              uplast.events[i] = "docker_compose" =>
                 \E j \in 1..(i - 1) :
                    uplast.events[j] = "user_in_docker_group"
        /\ (uplast.env.grp /\ ~InDockerGroup(uplast.env)) =>
              (uplast.raised /\ ~Invoked(uplast) /\ uplast.argv = <<>>)
        /\ ~uplast.env.grp =>
              (~uplast.raised /\ Invoked(uplast) /\ uplast.argv # <<>>)

\* Witness of C8: up failed for a user who is in another group only.
C8_Witness ==
    /\ uplast.op = "up"
    /\ uplast.env.grp
    /\ ~InDockerGroup(uplast.env)
    /\ \E g \in uplast.env.groups : User \in g.gr_mem
    /\ uplast.raised
    /\ uplast.events = <<"user_in_docker_group">>

\* C9: the arguments up forwards are "up", "-d", "--build", then "--scale"
\* and s for each scale s in input order, then "--force-recreate" exactly
\* when force_recreate is set, then the service names in input order; the
\* runner gets them after "docker-compose" and the extra options.
C9_ForwardedArgs ==
    (uplast.op = "up" /\ ~uplast.raised) =>
        LET a  == uplast.args
            ns == Len(uplast.scales)
            nf == IF uplast.force_recreate THEN 1 ELSE 0
            nv == Len(uplast.service)
        IN  /\ Len(a) = 3 + 2 * ns + nf + nv
            /\ a[1] = "up" /\ a[2] = "-d" /\ a[3] = "--build"
            /\ \A i \in 1..ns :
                  a[3 + 2 * i - 1] = "--scale" /\ a[3 + 2 * i] = uplast.scales[i]
            /\ uplast.force_recreate => a[3 + 2 * ns + 1] = "--force-recreate"
            /\ \A i \in 1..nv : a[3 + 2 * ns + nf + i] = uplast.service[i]
            /\ Len(uplast.argv) = 1 + Len(uplast.extra) + Len(a)
            /\ uplast.argv[1] = "docker-compose"
            /\ \A i \in 1..Len(uplast.extra) :
                  uplast.argv[1 + i] = uplast.extra[i]
            /\ \A i \in 1..Len(a) :
                  uplast.argv[1 + Len(uplast.extra) + i] = a[i]

\* Witness of C9: two different scales, --force-recreate and two different
\* services were forwarded.
C9_Witness ==
    /\ uplast.op = "up"
    /\ ~uplast.raised
    /\ uplast.force_recreate
    /\ Len(uplast.scales) = 2
    /\ uplast.scales[1] # uplast.scales[2]
    /\ Len(uplast.service) = 2
    /\ uplast.service[1] # uplast.service[2]
    /\ Len(uplast.args) = 10

(***************************************************************************)
(* SpecConc: completion requests running concurrently, each reading the    *)
(* cache, then invoking the orchestrator, then writing the cache.          *)
(***************************************************************************)
Requests == {1, 2}

InitConc ==
    /\ cache = {}
    /\ now = 0
    /\ ninv = [k \in Keys |-> 0]
    /\ ncalls = 0
    /\ last = NoCall
    /\ pc = [p \in Requests |-> "idle"]
    /\ req = [p \in Requests |-> CacheKey(<<".", "a">>, <<"-p", "x">>)]
    /\ out = <<>>
    /\ prefix = <<>>
    /\ services = <<>>
    /\ completed = <<>>
    /\ stage = "off"
    /\ uplast = [op |-> "none"]

\* Request p reads choices: a fresh entry answers it at once, otherwise it
\* starts the discovery invocation.
BeginChoices(p, directory, extra) ==
    /\ pc[p] = "idle"
    /\ ncalls < MaxCalls
    /\ ncalls' = ncalls + 1
    /\ LET key == CacheKey(directory, extra)
           hit == Fresh(cache, key, now)
       IN  \/ /\ hit # {}
              /\ last' = [NoCall EXCEPT !.op = "complete",
                             !.dir = key[1], !.flags = key[2],
                             !.age = AgeOf(cache, key, now),
                             !.result = (CHOOSE e \in hit : TRUE).services]
              /\ UNCHANGED <<pc, req, ninv>>
           \/ /\ hit = {}
              /\ pc' = [pc EXCEPT ![p] = "computing"]
              /\ req' = [req EXCEPT ![p] = key]
              /\ ninv' = [ninv EXCEPT ![key] = @ + 1]
              /\ UNCHANGED last
    /\ UNCHANGED <<cache, now, out, prefix, services, completed, stage,
                   uplast>>

\* The invocation of request p ends: on success its result is stored.
EndChoices(p, resp) ==
    /\ pc[p] = "computing"
    /\ pc' = [pc EXCEPT ![p] = "idle"]
    /\ LET r == compute(resp) IN
       /\ cache' = IF r.raised THEN cache
                   ELSE CacheStore(cache, req[p], r.value, now)
       /\ last' = [NoCall EXCEPT !.op = "complete",
                      !.dir = req[p][1], !.flags = req[p][2],
                      !.age = AgeOf(cache, req[p], now),
                      !.invoked = TRUE, !.resp = resp,
                      !.raised = r.raised, !.result = r.value]
    /\ UNCHANGED <<now, ninv, ncalls, req, out, prefix, services, completed,
                   stage, uplast>>

TickConc ==
    /\ \E d \in Deltas :
          /\ now + d <= MaxTime
          /\ now' = now + d
    /\ UNCHANGED <<cache, ninv, ncalls, last, pc, req, out, prefix,
                   services, completed, stage, uplast>>

NextConc ==
    \/ \E p \in Requests, d \in Directories, f \in ExtraOptions :
          BeginChoices(p, d, f)
    \/ \E p \in Requests, resp \in Responses : EndChoices(p, resp)
    \/ TickConc

SpecConc == InitConc /\ [][NextConc]_vars

\* C10: with several completion requests on the same key running
\* concurrently, at most one discovery for that key is in flight.
C10_SingleFlight ==
    \A k \in Keys :
        Cardinality({p \in Requests : pc[p] = "computing" /\ req[p] = k}) <= 1

=============================================================================
